---- MODULE Spec2Model ----
(***************************************************************************)
(* Model of tp/dcc/abstract/dataclass.py: ADataClass, a Mapping over the   *)
(* fields of a dataclass.  An instance is its attribute dictionary         *)
(* (__dict__); getattr/setattr are modelled as Python resolves them for an *)
(* instance that has a __dict__ (ADataClass declares no __slots__).        *)
(***************************************************************************)
EXTENDS Integers, Sequences, FiniteSets, TLC

\* ---------------------------------------------------------------- bounds
\* flat field values are the integers 0..MaxInt
MaxInt == 1
\* number of record instances that may be alive
MaxInst == 2
\* number of mutating calls in one behaviour
MaxSteps == 1
\* number of pairs of a mapping handed to update / copy
MaxPairs == 1

\* ---------------------------------------------------------------- values
\* A Python value is a record [kind, v]; kind tells the type of the value.
IntVal(n) == [kind |-> "int", v |-> n]
\* Python's None
None == [kind |-> "none", v |-> 0]
\* a nested ADataClass instance held as a field value
Nested(n) == [kind |-> "record", v |-> n]
\* the dict returned by the __getstate__ of the nested instance Nested(n)
StateOf(n) == [kind |-> "state", v |-> n]
\* marks a name that is not in the instance's __dict__
Absent == [kind |-> "absent", v |-> 0]

\* cls.__name__ and cls.__module__ of the concrete record type
class_name == [kind |-> "str", v |-> 0]
module_name == [kind |-> "str", v |-> 1]

\* dataclasses.fields(cls): the declared field names, in declaration order
fields == <<"x", "y">>

FieldSet == {fields[n] : n \in 1..Len(fields)}
\* the two keys __getstate__ puts in front of the fields
ReservedKeys == {"__name__", "__module__"}
\* a name the record type does not declare
UndeclaredNames == {"unknown_field"}
\* every attribute name the model hands to getattr / setattr
AttrNames == FieldSet \cup UndeclaredNames \cup ReservedKeys

\* attributes found on the class when the instance's __dict__ has none:
\* every class has __module__ (type.__name__ is not visible from instances)
ClassAttrs == [n \in {"__module__"} |-> module_name]

\* values a caller passes in
FlatValues == {IntVal(n) : n \in 0..MaxInt}
InputValues == FlatValues \cup {Nested(0)}
\* values carried by the pairs of a dict argument: a flat value other than the
\* constructor's default, so that an applied pair shows, and a nested record
PairValues == {IntVal(MaxInt), Nested(0)}

\* keys of __getitem__ / __setitem__ / get: a str, an int or something else
NameKey(s) == [t |-> "str", s |-> s, i |-> 0]
IndexKey(n) == [t |-> "int", s |-> "", i |-> n]
OtherKey == [t |-> "other", s |-> "", i |-> 0]
Indices == (0 - 1)..Len(fields)
Keys == {NameKey(s) : s \in FieldSet \cup UndeclaredNames} \cup {IndexKey(n) : n \in Indices} \cup {OtherKey}

\* a dict argument: a sequence of (key, value) pairs with distinct keys, in
\* the dict's iteration order
Pair(k, val) == [k |-> k, v |-> val]
Distinct(seq) == \A a, b \in 1..Len(seq) : a # b => seq[a].k # seq[b].k
MappingsOver(names, vals) ==
    {m \in UNION {[1..n -> {Pair(k, val) : k \in names, val \in vals}] : n \in 0..MaxPairs} :
        Distinct(m)}

\* the dicts handed to update and to copy(**kwargs)
Mappings == MappingsOver(FieldSet \cup UndeclaredNames, PairValues)

Insts == 1..MaxInst

VARIABLES heap, live, last, steps, objectGetstate
vars == <<heap, live, last, steps, objectGetstate>>

\* results of a call
Ok(val) == [outcome |-> "ok", ret |-> val]
Raise(exc) == [outcome |-> exc, ret |-> None]

\* ------------------------------------------------------- attribute access
\* getattr(self, name): the instance's __dict__, then the class
getattr(self, name) ==
    IF self[name] # Absent THEN Ok(self[name])
    ELSE IF name \in DOMAIN ClassAttrs THEN Ok(ClassAttrs[name])
    ELSE Raise("AttributeError")

\* setattr(self, name, value): stores into the instance's __dict__
setattr(self, name, value) == [self EXCEPT ![name] = value]

\* the dataclass's generated __init__: the fields, and nothing else
construct(args) == [n \in AttrNames |-> IF n \in FieldSet THEN args[n] ELSE Absent]
DefaultArgs == [n \in FieldSet |-> IntVal(0)]

\* ------------------------------------------------------- mapping protocol
\* a keys() that walks the instance's __dict__ instead of the declared fields
keysFromDict(self) ==
    IF self["unknown_field"] # Absent
    THEN Append([n \in 1..Len(fields) |-> fields[n]], "unknown_field")
    ELSE [n \in 1..Len(fields) |-> fields[n]]

keys(self) == [n \in 1..Len(fields) |-> fields[n]]

values(self) == [n \in 1..Len(keys(self)) |-> getattr(self, keys(self)[n]).ret]

items(self) == [n \in 1..Len(keys(self)) |-> Pair(keys(self)[n], getattr(self, keys(self)[n]).ret)]

len(self) == Len(fields)

contains(self, item) == \E n \in 1..Len(keys(self)) : keys(self)[n] = item

\* an __eq__ that compares the field values, as a generated dataclass __eq__
eqByValue(self, other) == heap[self] = heap[other]

eq(self, other) == self = other

ne(self, other) == self # other

\* a __getitem__ that lets a negative index count from the end, as a list does
getitemWrapping(self, key) ==
    IF key.t = "str" THEN getattr(self, key.s)
    ELSE IF key.t = "int" THEN
        IF 0 - Len(fields) <= key.i /\ key.i < Len(fields)
        THEN getattr(self, fields[((key.i + Len(fields)) % Len(fields)) + 1])
        ELSE Raise("IndexError")
    ELSE Raise("TypeError")

getitem(self, key) ==
    IF key.t = "str" THEN getattr(self, key.s)
    ELSE IF key.t = "int" THEN
        IF 0 <= key.i /\ key.i < Len(fields)
        THEN getattr(self, fields[key.i + 1])
        ELSE Raise("IndexError")
    ELSE Raise("TypeError")

\* __setitem__: the outcome and the instance's __dict__ after the call
setitem(self, key, value) ==
    IF key.t = "str" THEN [outcome |-> "ok", dict |-> setattr(self, key.s, value)]
    ELSE IF key.t = "int" THEN
        IF 0 <= key.i /\ key.i < Len(fields)
        THEN [outcome |-> "ok", dict |-> setattr(self, fields[key.i + 1], value)]
        ELSE [outcome |-> "IndexError", dict |-> self]
    ELSE [outcome |-> "TypeError", dict |-> self]

\* get: getattr with a default; getattr refuses an attribute name that is
\* not a str
get(self, key, default) ==
    IF key.t # "str" THEN Raise("TypeError")
    ELSE IF getattr(self, key.s).outcome = "ok" THEN getattr(self, key.s)
    ELSE Ok(default)

RECURSIVE update(_, _)
update(self, obj) ==
    IF obj = <<>> THEN self
    ELSE update(setattr(self, Head(obj).k, Head(obj).v), Tail(obj))

\* a copy that drops its keyword arguments
copyWithoutUpdate(self, kwargs) == construct([n \in FieldSet |-> self[n]])

\* dataclasses.replace(self) builds a new instance from the fields, then
\* update(kwargs) on the new instance
copy(self, kwargs) ==
    update(construct([n \in FieldSet |-> self[n]]), kwargs)

\* hasattr(value, '__getstate__'): a nested record has it; any other value
\* has it exactly when object itself defines __getstate__
hasGetstate(value) == value.kind = "record" \/ objectGetstate

\* value.__getstate__(): a nested record's state dict; object's default
\* __getstate__ yields None for a value without instance __dict__
valueGetstate(value) == IF value.kind = "record" THEN StateOf(value.v) ELSE None

RECURSIVE getstateFrom(_, _)
getstateFrom(its, state) ==
    IF its = <<>> THEN state
    ELSE IF hasGetstate(Head(its).v)
         THEN getstateFrom(Tail(its), Append(state, Pair(Head(its).k, valueGetstate(Head(its).v))))
         ELSE getstateFrom(Tail(its), state)

getstate(self) ==
    getstateFrom(items(self), <<Pair("__name__", class_name), Pair("__module__", module_name)>>)

setstate(self, state) == update(self, state)

\* ---------------------------------------------------------------- actions
\* last: the latest call, with its arguments (key, value, obj), the instance it
\* was made on (inst), how it ended (outcome) and the instance it made or
\* read (new)
Call(op, i, outcome, new, key, value, obj) ==
    [op |-> op, inst |-> i, outcome |-> outcome, new |-> new,
     key |-> key, value |-> value, obj |-> obj]
NoCall == Call("init", 1, "ok", 0, OtherKey, None, <<>>)

Unborn == [n \in AttrNames |-> Absent]

\* the program has constructed one record from arguments of the caller's
\* choice, and perhaps a second one from the defaults
Init ==
    /\ \E args \in [FieldSet -> InputValues], born \in {{1}, {1, 2}} :
          /\ live = born
          /\ heap = [i \in Insts |->
                        IF i = 1 THEN construct(args)
                        ELSE IF i \in born THEN construct(DefaultArgs)
                        ELSE Unborn]
    /\ last = NoCall
    /\ steps = 0
    /\ objectGetstate \in BOOLEAN

\* a fresh default instance of the record type
New ==
    /\ steps < MaxSteps
    /\ \E j \in Insts \ live :
          /\ \A k \in Insts \ live : j <= k
          /\ heap' = [heap EXCEPT ![j] = construct(DefaultArgs)]
          /\ live' = live \cup {j}
          /\ last' = Call("new", j, "ok", j, OtherKey, None, <<>>)
    /\ steps' = steps + 1
    /\ UNCHANGED objectGetstate

SetItem(i, key, value) ==
    /\ steps < MaxSteps
    /\ i \in live
    /\ heap' = [heap EXCEPT ![i] = setitem(heap[i], key, value).dict]
    /\ last' = Call("setitem", i, setitem(heap[i], key, value).outcome, 0, key, value, <<>>)
    /\ steps' = steps + 1
    /\ UNCHANGED <<live, objectGetstate>>

Update(i, obj) ==
    /\ steps < MaxSteps
    /\ i \in live
    /\ heap' = [heap EXCEPT ![i] = update(heap[i], obj)]
    /\ last' = Call("update", i, "ok", 0, OtherKey, None, obj)
    /\ steps' = steps + 1
    /\ UNCHANGED <<live, objectGetstate>>

Copy(i, kwargs) ==
    /\ steps < MaxSteps
    /\ i \in live
    /\ \E j \in Insts \ live :
          /\ \A k \in Insts \ live : j <= k
          /\ heap' = [heap EXCEPT ![j] = copy(heap[i], kwargs)]
          /\ live' = live \cup {j}
          /\ last' = Call("copy", i, "ok", j, OtherKey, None, kwargs)
    /\ steps' = steps + 1
    /\ UNCHANGED objectGetstate

\* __setstate__ with the state exported by the live instance src
SetState(i, src) ==
    /\ steps < MaxSteps
    /\ i \in live
    /\ src \in live
    /\ heap' = [heap EXCEPT ![i] = setstate(heap[i], getstate(heap[src]))]
    /\ last' = Call("setstate", i, "ok", src, OtherKey, None, getstate(heap[src]))
    /\ steps' = steps + 1
    /\ UNCHANGED <<live, objectGetstate>>

Next ==
    \/ New
    \/ \E i \in Insts, key \in Keys, value \in InputValues : SetItem(i, key, value)
    \/ \E i \in Insts, obj \in Mappings : Update(i, obj)
    \/ \E i \in Insts, kwargs \in Mappings : Copy(i, kwargs)
    \/ \E i \in Insts, src \in Insts : SetState(i, src)

Spec == Init /\ [][Next]_vars

\* ------------------------------------------------------------------ claims
\* the declared schema, written out
DeclaredNames == <<"x", "y">>
Declared(name) == \E n \in 1..Len(DeclaredNames) : DeclaredNames[n] = name
HasUndeclared(obj) == \E n \in 1..Len(obj) : ~Declared(obj[n].k)
FirstUndeclared(obj) == CHOOSE n \in 1..Len(obj) :
    ~Declared(obj[n].k) /\ \A m \in 1..(n - 1) : Declared(obj[m].k)
\* the dictionary d with the first n pairs of obj assigned, and nothing else
WithPairs(d, obj, n) ==
    [name \in AttrNames |->
        IF \E m \in 1..n : obj[m].k = name
        THEN obj[CHOOSE m \in 1..n : obj[m].k = name].v
        ELSE d[name]]
Entry(state, name) == state[CHOOSE n \in 1..Len(state) : state[n].k = name].v
AllFlat(d) == \A n \in 1..Len(DeclaredNames) : d[DeclaredNames[n]].kind = "int"

\* C1: update(obj) fails with UnknownField (AttributeError) at the first key
\* that is not a declared field; the pairs before that key are applied and
\* stay applied, no pair from that key on is applied.
C1_UpdateFailsAtUnknownField ==
    [][(last'.op = "update" /\ HasUndeclared(last'.obj)) =>
          /\ last'.outcome = "AttributeError"
          /\ heap'[last'.inst] =
                 WithPairs(heap[last'.inst], last'.obj, FirstUndeclared(last'.obj) - 1)]_vars

\* C2: in every reachable state, the exported state of every record has
\* exactly the keys __name__, __module__ and the declared fields, and the
\* entry of a field is the nested state of a nested record and the raw field
\* value otherwise.
C2_ExportStateHasEveryField ==
    \A i \in live :
        /\ {getstate(heap[i])[n].k : n \in 1..Len(getstate(heap[i]))}
               = ReservedKeys \cup {DeclaredNames[n] : n \in 1..Len(DeclaredNames)}
        /\ Len(getstate(heap[i])) = Len(DeclaredNames) + Cardinality(ReservedKeys)
        /\ \A n \in 1..Len(DeclaredNames) :
              Entry(getstate(heap[i]), DeclaredNames[n]) =
                  IF heap[i][DeclaredNames[n]].kind = "record"
                  THEN StateOf(heap[i][DeclaredNames[n]].v)
                  ELSE heap[i][DeclaredNames[n]]

\* C3: importing the exported state of a record whose field values are all
\* flat into a fresh default instance makes the items of that instance equal
\* to the items of the record.
C3_RoundTripReproducesItems ==
    [][(/\ last'.op = "setstate"
        /\ last'.new # last'.inst
        /\ heap[last'.inst] = construct(DefaultArgs)
        /\ AllFlat(heap[last'.new])) =>
          items(heap'[last'.inst]) = items(heap[last'.new])]_vars

\* C4: import_state leaves no value stored on the instance under a reserved
\* key and changes nothing but the declared fields of the instance.
C4_ImportSkipsReservedKeys ==
    [][last'.op = "setstate" =>
          /\ \A name \in ReservedKeys : heap'[last'.inst][name] = Absent
          /\ \A name \in AttrNames :
                ~Declared(name) => heap'[last'.inst][name] = heap[last'.inst][name]
          /\ \A j \in Insts \ {last'.inst} : heap'[j] = heap[j]]_vars

\* C5: in every reachable state get(key, default) raises nothing for a name
\* or an index; it returns the current value of the declared field the key
\* designates, and default for every name that is not a declared field.
C5_GetNeverRaises ==
    \A i \in live, default \in InputValues \cup {None} :
        /\ \A name \in AttrNames :
              /\ get(heap[i], NameKey(name), default).outcome = "ok"
              /\ get(heap[i], NameKey(name), default).ret =
                     IF Declared(name) THEN heap[i][name] ELSE default
        /\ \A n \in 0..(Len(DeclaredNames) - 1) :
              /\ get(heap[i], IndexKey(n), default).outcome = "ok"
              /\ get(heap[i], IndexKey(n), default).ret = heap[i][DeclaredNames[n + 1]]

\* C6: for a name that is not a declared field, set_by_name fails with
\* UnknownField (AttributeError) and leaves the record unchanged, and
\* get_by_name fails with UnknownField, in every state a call leads to; for a
\* declared name get_by_name returns the current value of the field.
C6_UndeclaredNamesRejected ==
    [][/\ (last'.op = "setitem" /\ last'.key.t = "str" /\ ~Declared(last'.key.s)) =>
             /\ last'.outcome = "AttributeError"
             /\ heap'[last'.inst] = heap[last'.inst]
       /\ \A i \in live', name \in FieldSet \cup UndeclaredNames :
             IF Declared(name)
             THEN getitem(heap'[i], NameKey(name)) = Ok(heap'[i][name])
             ELSE getitem(heap'[i], NameKey(name)).outcome = "AttributeError"]_vars

C8_CopyOverridesAndKeepsOriginal ==
    [][(last'.op = "copy" /\ ~HasUndeclared(last'.obj)) =>
          /\ last'.new \notin live
          /\ last'.new \in live'
          /\ ~eq(last'.inst, last'.new)
          /\ \A n \in 1..Len(DeclaredNames) :
                heap'[last'.new][DeclaredNames[n]] =
                    WithPairs(heap[last'.inst], last'.obj, Len(last'.obj))[DeclaredNames[n]]
          /\ heap'[last'.inst] = heap[last'.inst]]_vars

\* a copy with x overridden: it differs from its original in x and shares a
\* value other than the default in y
C8_Witness ==
    /\ last.op = "copy"
    /\ last.obj = <<Pair("x", Nested(0))>>
    /\ last.new \in live
    /\ heap[last.new]["x"] = Nested(0)
    /\ heap[last.inst]["x"] = IntVal(0)
    /\ heap[last.new]["y"] = heap[last.inst]["y"]
    /\ heap[last.inst]["y"] = IntVal(1)
    /\ ~eq(last.inst, last.new)

\* C9: in every reachable state, for 0 <= n < length() get_by_index(n)
\* returns what get_by_name returns for the n-th name of iterate_keys();
\* for every other n, n = -1 and n = length() included, it fails with
\* IndexOutOfRange (IndexError).
C9_IndexAccess ==
    \A i \in live, n \in (0 - Len(DeclaredNames) - 1)..(Len(DeclaredNames) + 1) :
        IF 0 <= n /\ n < len(heap[i])
        THEN /\ getitem(heap[i], IndexKey(n)).outcome = "ok"
             /\ getitem(heap[i], IndexKey(n)) = getitem(heap[i], NameKey(keys(heap[i])[n + 1]))
             /\ getitem(heap[i], IndexKey(n)).ret = heap[i][DeclaredNames[n + 1]]
        ELSE getitem(heap[i], IndexKey(n)).outcome = "IndexError"

\* the last field was assigned by name and reads back through its index,
\* the first field keeps another value; -1 and length() are out of range
C9_Witness ==
    /\ last.op = "setitem"
    /\ last.key = NameKey("y")
    /\ last.value = Nested(0)
    /\ heap[last.inst]["x"] = IntVal(1)
    /\ getitem(heap[last.inst], IndexKey(1)) = Ok(Nested(0))
    /\ getitem(heap[last.inst], IndexKey(0)) = Ok(IntVal(1))
    /\ getitem(heap[last.inst], IndexKey(0 - 1)).outcome = "IndexError"
    /\ getitem(heap[last.inst], IndexKey(len(heap[last.inst]))).outcome = "IndexError"

\* C10: a.equals(b) is true exactly when a and b are the same instance, also
\* when the two hold the same field values, and a.not_equals(b) is the
\* negation of a.equals(b).
C10_EqualityIsIdentity ==
    \A a, b \in live :
        /\ eq(a, a)
        /\ a # b => ~eq(a, b)
        /\ ne(a, b) <=> ~eq(a, b)

\* a record and its copy: two instances with the same attribute values
C10_Witness ==
    /\ last.op = "copy"
    /\ last.new \in live
    /\ last.new # last.inst
    /\ heap[last.new] = heap[last.inst]
    /\ ~eq(last.inst, last.new)
    /\ ne(last.inst, last.new)

====
